---- MODULE Spec2Model ----
(***************************************************************************)
(* Model of the navigation controller of src/model.py (class Model) and of *)
(* the experiment scripts that drive it.                                   *)
(*                                                                         *)
(* Units.  Time is counted in milliseconds (0.1 s = 100, 0.2 s = 200),     *)
(* lengths in tenths of a metre (catchment radius 1.0 m = 10), the core    *)
(* fraction and similarities in hundredths (0.45 = 45), motion-vector      *)
(* lengths and angles in thousandths (0.05 = 50, 0.4 rad = 400).  All      *)
(* arithmetic is exact; floating-point rounding is not modelled.           *)
(*                                                                         *)
(* The neural substrate (spa.State, associative memories, basal ganglia)   *)
(* is not modelled: what a node callback reads from it is an input chosen  *)
(* nondeterministically at every tick.                                     *)
(***************************************************************************)
EXTENDS Integers, Sequences, FiniteSets, TLC

VARIABLES
    cfg,              \* index of the configuration (params + scene) in use
    pc,               \* position of the experiment script
    network_built,    \* Model._make_model has run
    vrep_sim_started, \* vrep_sim.start_sim has been called
    t,                \* simulation time of the last executed tick (ms)
    goal_reached,     \* Model._goal_reached
    goal_name,        \* Model._goal_name
    new_goal_name,    \* Model._new_goal_name
    t_new_goal,       \* Model._t_new_goal
    goal_sp,          \* Model._goal_sp
    goal_input_out,   \* output of node goal_input at the last tick
    t_goal_reached,   \* Model._t_goal_reached
    last_op,          \* the operation executed last, and how it ended
    match_since,      \* time of the first tick of the current unbroken run
                      \* of ticks with a qualifying match (NoneT: no run)
    bot_pos,          \* position of the robot in the scene
    displace_no,      \* number of release points used so far
    displaced,        \* Model._displaced
    t_displace,       \* Model._t_displace
    global_vec,       \* Model._global_vec
    bot_prev_pos,     \* Model._bot_prev_pos
    displace_out,     \* output of node displace_inp at the last tick
    displace_first,   \* update_displace runs before update_global_vec
    jump,             \* sum of the robot's passive moves since the last tick
    ever_displaced,   \* on_displace has been called in this run
    motion_vec,       \* input of node wheel_speeds at the last tick
    wheel_speeds,     \* output of node wheel_speeds at the last tick
    wheels_velocities, \* velocities last commanded to scene.bot.wheels
    catch_area,       \* output of node catch_area_inp at the last tick
    catch_vec,        \* output of node catch_vec_inp at the last tick
    view7view,        \* output of the view comparator read at the last tick
    view,             \* waypoint whose view is seen at the last tick ("0": none)
    gate_view_routept,    \* gate_view_routept holds 1
    gate_target_vec,      \* gate_target_vec holds 1
    gate_target_vec_goal, \* gate_target_vec_goal is driven to 1
    gate_routept_cleanup, \* gate_routept_cleanup is driven to 1
    prev_routept,     \* routepoint held by prev_routept ("0": none)
    utils,            \* utilities of the actions at the last tick
    was_following,    \* before the last tick a previous routepoint was held
                      \* and gate_view_routept and gate_target_vec were set
    action            \* action executed at the last tick

lifeVars == <<cfg, pc, network_built, vrep_sim_started>>
goalVars == <<goal_reached, goal_name, new_goal_name, t_new_goal, goal_sp,
              goal_input_out, t_goal_reached, match_since>>
dispVars == <<bot_pos, displace_no, displaced, t_displace, global_vec,
              bot_prev_pos, displace_out, displace_first, jump,
              ever_displaced>>
wheelVars == <<motion_vec, wheel_speeds, wheels_velocities>>
catchVars == <<catch_area, catch_vec, view7view>>
actVars  == <<view, gate_view_routept, gate_target_vec, gate_target_vec_goal,
              gate_routept_cleanup, prev_routept, utils, was_following,
              action>>
vars     == <<lifeVars, t, goalVars, last_op, dispVars, wheelVars, catchVars,
              actVars>>

(***************************************************************************)
(* Python's None: for a name, and for a time.                              *)
(***************************************************************************)
PyNone == "<None>"
NoneT  == -1

(***************************************************************************)
(* Bound of the model: the simulated time, params.sim_duration (ms).       *)
(***************************************************************************)
MaxT == 450

(***************************************************************************)
(* Bound of the model: the robot drives inside the square 0..MaxPos.       *)
(***************************************************************************)
MaxPos == 2

(***************************************************************************)
(* Bound of the model: where catchment areas are looked at, the robot      *)
(* drives inside the square 0..MaxCoord.                                   *)
(***************************************************************************)
MaxCoord == 32

----
(***************************************************************************)
(* str.upper() on the names that occur in the configurations and calls.    *)
(***************************************************************************)
Upper(s) ==
    CASE s = "Nest"      -> "NEST"
      [] s = "Feed1"     -> "FEED1"
      [] s = "Waypoint1" -> "WAYPOINT1"
      [] s = "none"      -> "NONE"
      [] s = "NONE"      -> "NONE"
      [] s = "Bogus"     -> "BOGUS"
      [] OTHER           -> s

(***************************************************************************)
(* Model.probeable (the part the configurations refer to).                 *)
(***************************************************************************)
probeable == {"bot_pos", "global_vec", "goal", "goal_detect", "wheel_speeds"}

(***************************************************************************)
(* Scenes and parameters.  SceneA is the two-goal scene with one route     *)
(* Nest -> Waypoint1 -> Feed1; SceneB adds the route back, SceneC the      *)
(* direct route Nest -> Feed1.                                             *)
(***************************************************************************)
SceneA ==
    [goals_names  |-> <<"Nest", "Feed1">>,
     goals_pos    |-> << <<0, 0>>, <<60, 80>> >>,
     waypts_names |-> <<"Nest", "Feed1", "Waypoint1">>,
     waypts_pos   |-> << <<0, 0>>, <<60, 80>>, <<30, 40>> >>,
     routes_names |-> <<"Route1">>,
     routes_waypts_names |-> << <<"Nest", "Waypoint1", "Feed1">> >>]

SceneB ==
    [SceneA EXCEPT
        !.routes_names = <<"Route1", "Route2">>,
        !.routes_waypts_names = << <<"Nest", "Waypoint1", "Feed1">>,
                                   <<"Feed1", "Waypoint1", "Nest">> >>]

\* SceneA with a second route, the direct one, to the same goal
SceneC ==
    [SceneA EXCEPT
        !.routes_names = <<"Route1", "Route2">>,
        !.routes_waypts_names = << <<"Nest", "Waypoint1", "Feed1">>,
                                   <<"Nest", "Feed1">> >>]

ParamsA ==
    [catch_area_radius |-> 10,
     catch_vec_core    |-> 20,
     catch_vec_thres   |-> 20,
     action_n2pr_coeff_gvr       |-> 20,
     action_v2pr_coeff_gvr       |-> 50,
     action_v2pr_coeff_intercept |-> 20,
     saved_data        |-> {},
     nengo_sim_dt      |-> 50,
     vrep_sim_dt       |-> 50,
     bot_init_pos      |-> <<0, 0>>,
     init_global_vec   |-> <<0, 0>>,
     bot_releasepts_pos |-> << <<2, 2>>, <<0, 1>> >>,
     bot_displacept_pos |-> <<1, 1>>,
     bot_displacept_dist_thres |-> 1,
     goal               |-> "Feed1",
     sim_cycle_duration |-> 150]

Configs ==
    << \* two routes from the same waypoint to the same goal
       [params |-> ParamsA, scene |-> SceneC],
       \* the largest whole radius below half the minimum waypoint distance
       [params |-> [ParamsA EXCEPT !.vrep_sim_dt = 100,
                                   !.saved_data = {"bot_pos", "goal"},
                                   !.init_global_vec = <<1, 0>>,
                                   !.catch_area_radius = 24,
                                   !.catch_vec_core = 50],
        scene  |-> SceneB],
       \* fewer than 2 goals
       [params |-> ParamsA,
        scene  |-> [SceneA EXCEPT !.goals_names = <<"Feed1">>,
                                  !.goals_pos = << <<60, 80>> >>]],
       \* a goal called NONE (up to case)
       [params |-> ParamsA,
        scene  |-> [SceneA EXCEPT !.goals_names = <<"none", "Feed1">>,
                                  !.waypts_names = <<"none", "Feed1", "Waypoint1">>,
                                  !.routes_waypts_names =
                                      << <<"none", "Waypoint1", "Feed1">> >>]],
       \* radius equal to half the minimum distance between waypoints
       [params |-> [ParamsA EXCEPT !.catch_area_radius = 25], scene |-> SceneA],
       \* core region equal to 1
       [params |-> [ParamsA EXCEPT !.catch_vec_core = 100], scene |-> SceneA],
       \* no route
       [params |-> ParamsA,
        scene  |-> [SceneA EXCEPT !.routes_names = <<>>,
                                  !.routes_waypts_names = <<>>]],
       \* a route that does not end with a goal
       [params |-> ParamsA,
        scene  |-> [SceneA EXCEPT !.routes_waypts_names =
                                      << <<"Nest", "Feed1", "Waypoint1">> >>]],
       \* data to be saved that is not probeable
       [params |-> [ParamsA EXCEPT !.saved_data = {"goal", "bogus_signal"}],
        scene  |-> SceneA],
       \* V-REP time step not a multiple of the Nengo time step
       [params |-> [ParamsA EXCEPT !.vrep_sim_dt = 75], scene |-> SceneA] >>

params == Configs[cfg].params
scene  == Configs[cfg].scene

----
(***************************************************************************)
(* Program constants of the node callbacks.                                *)
(***************************************************************************)
GoalInputHold   == 100   \* update_goal_input: t < self._t_new_goal + 0.1
DisplaceHold    == 100   \* update_displace: t < self._t_displace + 0.1
StopMargin      == 50    \* update_wheel_speeds: norm < 0.05
ThetaThres      == 400   \* update_wheel_speeds: -0.4 < theta < 0.4
WheelSpeed      == 5000  \* update_wheel_speeds: 5.0 -/+ theta
RotationGain    == 5     \* update_wheel_speeds: -/+ 5.0 * theta
GoalReachedHold == 200   \* update_goal_detect: t > self._t_goal_reached + 0.2
MinSimilarity   == 45    \* update_goal_detect: dots.max() < 0.45

----
(***************************************************************************)
(* Experiment script: validation of the V-REP simulation time step.        *)
(* sim_dt_ratio == round(sim_dt_ratio), on exact numbers.                  *)
(***************************************************************************)
sim_dt_ratio_ok(p) == p.vrep_sim_dt % p.nengo_sim_dt = 0

(***************************************************************************)
(* Model.validate_params: the name of the first check that fails, or "ok". *)
(***************************************************************************)
SqDist(p, q) == (p[1] - q[1]) * (p[1] - q[1]) + (p[2] - q[2]) * (p[2] - q[2])

SetMin(S) == CHOOSE m \in S : \A n \in S : m <= n

waypts_square_dists(s) ==
    {SqDist(s.waypts_pos[i], s.waypts_pos[j]) :
        <<i, j>> \in {ij \in (1..Len(s.waypts_pos)) \X (1..Len(s.waypts_pos)) :
                        ij[1] < ij[2]}}

\* params.catch_area_radius < min_waypts_dist / 2, for a radius >= 0
radius_ok(p, s) ==
    4 * p.catch_area_radius * p.catch_area_radius
        < SetMin(waypts_square_dists(s))

\* validate_params with the radius check made non-strict (<= instead of <)
validate_params_radius_le(p, s) ==
    IF ~(Len(s.goals_names) >= 2) THEN "goals_number"
    ELSE IF \E i \in 1..Len(s.goals_names) : Upper(s.goals_names[i]) = "NONE"
        THEN "goal_name"
    ELSE IF ~(4 * p.catch_area_radius * p.catch_area_radius
                <= SetMin(waypts_square_dists(s))) THEN "catch_area_radius"
    ELSE IF ~(p.catch_vec_core < 100) THEN "catch_vec_core"
    ELSE IF ~(Len(s.routes_names) >= 1) THEN "routes_number"
    ELSE IF \E r \in 1..Len(s.routes_waypts_names) :
                LET route == s.routes_waypts_names[r]
                IN  ~(\E g \in 1..Len(s.goals_names) :
                        s.goals_names[g] = route[Len(route)])
        THEN "route_end"
    ELSE IF p.saved_data # {} /\ (p.saved_data \ probeable) # {}
        THEN "unprobeable"
    ELSE "ok"

validate_params(p, s) ==
    IF ~(Len(s.goals_names) >= 2) THEN "goals_number"
    ELSE IF \E i \in 1..Len(s.goals_names) : Upper(s.goals_names[i]) = "NONE"
        THEN "goal_name"
    ELSE IF ~radius_ok(p, s) THEN "catch_area_radius"
    ELSE IF ~(p.catch_vec_core < 100) THEN "catch_vec_core"
    ELSE IF ~(Len(s.routes_names) >= 1) THEN "routes_number"
    ELSE IF \E r \in 1..Len(s.routes_waypts_names) :
                LET route == s.routes_waypts_names[r]
                IN  ~(\E g \in 1..Len(s.goals_names) :
                        s.goals_names[g] = route[Len(route)])
        THEN "route_end"
    ELSE IF p.saved_data # {} /\ (p.saved_data \ probeable) # {}
        THEN "unprobeable"
    ELSE "ok"

----
(***************************************************************************)
(* Vocabularies built by Model._make_model.                                *)
(***************************************************************************)
\* goals_vocab.keys: "NONE", then the upper-cased goal names
goals_vocab_keys(s) ==
    <<"NONE">> \o [i \in 1..Len(s.goals_names) |-> Upper(s.goals_names[i])]

\* the routepoint keys of one route: "{goal}x{view}" for each of its waypoints
route_routepts_sp_keys(route) ==
    [i \in 1..Len(route) |->
        Upper(route[Len(route)]) \o "x" \o "VIEW_" \o Upper(route[i])]

\* routepts_vocab.add: a key that already exists is not added again
vocab_add(keys, k) ==
    IF \E i \in 1..Len(keys) : keys[i] = k THEN keys ELSE Append(keys, k)

RECURSIVE vocab_add_all(_, _)
vocab_add_all(keys, ks) ==
    IF ks = <<>> THEN keys
    ELSE vocab_add_all(vocab_add(keys, Head(ks)), Tail(ks))

RECURSIVE routepts_keys_from(_, _)
routepts_keys_from(keys, routes) ==
    IF routes = <<>> THEN keys
    ELSE routepts_keys_from(
            vocab_add_all(keys, route_routepts_sp_keys(Head(routes))),
            Tail(routes))

routepts_vocab_keys(s) == routepts_keys_from(<<>>, s.routes_waypts_names)

\* self.routepts_vocab.keys of the model built from each configuration
routepts_vocab == [c \in 1..Len(Configs) |-> routepts_vocab_keys(Configs[c].scene)]

----
(***************************************************************************)
(* Symbolic semantic pointers.  A difference of two codes is kept as the   *)
(* pair of its terms.                                                      *)
(***************************************************************************)
NoSp   == [plus |-> PyNone, minus |-> PyNone]       \* self._goal_sp = None
ZeroSp == [plus |-> "ZERO", minus |-> "ZERO"]       \* [0.0] * sp_dim

\* what the state `goal` may hold when update_goal_input reads it
GoalStates(s) == {"ZERO"} \cup {goals_vocab_keys(s)[i] :
                                    i \in 1..Len(goals_vocab_keys(s))}

\* the names set_goal is called with
GoalArgs == {"Nest", "Feed1", "NONE", "Bogus"}

----
(***************************************************************************)
(* Model.set_goal, as a function of the state: whether it raised, and the  *)
(* fields it leaves behind.                                                *)
(***************************************************************************)
\* set_goal that clears the goal-reached flag before it validates the name
set_goal_clear_first(name) ==
    IF name = goal_name
        THEN [raised |-> FALSE,
              new_goal_name |-> new_goal_name, goal_reached |-> goal_reached]
    ELSE IF ~(\E g \in 1..Len(scene.goals_names) : scene.goals_names[g] = name)
        THEN [raised |-> TRUE,
              new_goal_name |-> new_goal_name, goal_reached |-> FALSE]
    ELSE [raised |-> FALSE,
          new_goal_name |-> name, goal_reached |-> FALSE]

\* set_goal without the early return for the goal that is already set
set_goal_no_same_check(name) ==
    IF ~(\E g \in 1..Len(scene.goals_names) : scene.goals_names[g] = name)
        THEN [raised |-> TRUE,
              new_goal_name |-> new_goal_name, goal_reached |-> goal_reached]
    ELSE [raised |-> FALSE,
          new_goal_name |-> name, goal_reached |-> FALSE]

set_goal(name) ==
    IF name = goal_name                 \* same goal as already set
        THEN [raised |-> FALSE,
              new_goal_name |-> new_goal_name, goal_reached |-> goal_reached]
    ELSE IF ~(\E g \in 1..Len(scene.goals_names) : scene.goals_names[g] = name)
        THEN [raised |-> TRUE,          \* ValueError
              new_goal_name |-> new_goal_name, goal_reached |-> goal_reached]
    ELSE [raised |-> FALSE,
          new_goal_name |-> name, goal_reached |-> FALSE]

(***************************************************************************)
(* Node goal_input: update_goal_input(t, x).  `computed` tells whether the *)
(* difference between the new and the current goal was computed.           *)
(***************************************************************************)
\* update_goal_input that holds the pulse while t <= t_new_goal + 0.1
update_goal_input_le(tt, x) ==
    IF new_goal_name # PyNone
        THEN LET sp == [plus |-> Upper(new_goal_name), minus |-> x]
             IN  [goal_name     |-> new_goal_name,
                  t_new_goal    |-> tt,
                  goal_sp       |-> sp,
                  new_goal_name |-> PyNone,
                  computed      |-> TRUE,
                  out           |-> [goal_set |-> TRUE, goal |-> sp]]
    ELSE IF t_new_goal # NoneT /\ tt <= t_new_goal + GoalInputHold
        THEN [goal_name     |-> goal_name,
              t_new_goal    |-> t_new_goal,
              goal_sp       |-> goal_sp,
              new_goal_name |-> new_goal_name,
              computed      |-> FALSE,
              out           |-> [goal_set |-> TRUE, goal |-> goal_sp]]
    ELSE [goal_name     |-> goal_name,
          t_new_goal    |-> NoneT,
          goal_sp       |-> NoSp,
          new_goal_name |-> new_goal_name,
          computed      |-> FALSE,
          out           |-> [goal_set |-> FALSE, goal |-> ZeroSp]]

update_goal_input(tt, x) ==
    IF new_goal_name # PyNone
        THEN LET sp == [plus |-> Upper(new_goal_name), minus |-> x]
             IN  [goal_name     |-> new_goal_name,
                  t_new_goal    |-> tt,
                  goal_sp       |-> sp,
                  new_goal_name |-> PyNone,
                  computed      |-> TRUE,
                  out           |-> [goal_set |-> TRUE, goal |-> sp]]
    ELSE IF t_new_goal # NoneT /\ tt < t_new_goal + GoalInputHold
        THEN [goal_name     |-> goal_name,
              t_new_goal    |-> t_new_goal,
              goal_sp       |-> goal_sp,
              new_goal_name |-> new_goal_name,
              computed      |-> FALSE,
              out           |-> [goal_set |-> TRUE, goal |-> goal_sp]]
    ELSE [goal_name     |-> goal_name,
          t_new_goal    |-> NoneT,
          goal_sp       |-> NoSp,
          new_goal_name |-> new_goal_name,
          computed      |-> FALSE,
          out           |-> [goal_set |-> FALSE, goal |-> ZeroSp]]

(***************************************************************************)
(* Node goal_detect_inp: update_goal_detect(t, x).  Of x the callback uses *)
(* the best match of the goal state in goals_vocab (index g, similarity    *)
(* gsim) and of the previous routepoint in routepts_vocab (r, rsim).       *)
(* Indices: g = 0 is "NONE", g >= 1 is scene.goals_names[g] (1-based);     *)
(* r is 1-based.                                                           *)
(***************************************************************************)
\* update_goal_detect that keeps the timer when the resolved routepoint is
\* not the one of the goal
update_goal_detect_no_reset(tt, g, gsim, r, rsim) ==
    LET clear == [t_goal_reached |-> NoneT, goal_reached |-> goal_reached]
        keep  == [t_goal_reached |-> t_goal_reached,
                  goal_reached   |-> goal_reached]
    IN  IF gsim < MinSimilarity THEN clear
        ELSE IF rsim < MinSimilarity THEN clear
        ELSE IF g = 0 THEN clear
        ELSE LET name == Upper(scene.goals_names[g])
                 routept_sp_key == name \o "x" \o "VIEW_" \o name
             IN  IF routepts_vocab[cfg][r] = routept_sp_key
                    THEN IF t_goal_reached = NoneT
                            THEN [t_goal_reached |-> tt,
                                  goal_reached   |-> goal_reached]
                         ELSE IF tt > t_goal_reached + GoalReachedHold
                            THEN [t_goal_reached |-> NoneT,
                                  goal_reached   |-> TRUE]
                         ELSE keep
                 ELSE keep

\* update_goal_detect that clears the goal-reached flag when the match is
\* lost
update_goal_detect_clears(tt, g, gsim, r, rsim) ==
    LET clear == [t_goal_reached |-> NoneT, goal_reached |-> FALSE]
    IN  IF gsim < MinSimilarity THEN clear
        ELSE IF rsim < MinSimilarity THEN clear
        ELSE IF g = 0 THEN clear
        ELSE LET name == Upper(scene.goals_names[g])
                 routept_sp_key == name \o "x" \o "VIEW_" \o name
             IN  IF routepts_vocab[cfg][r] = routept_sp_key
                    THEN IF t_goal_reached = NoneT
                            THEN [t_goal_reached |-> tt,
                                  goal_reached   |-> goal_reached]
                         ELSE IF tt > t_goal_reached + GoalReachedHold
                            THEN [t_goal_reached |-> NoneT,
                                  goal_reached   |-> TRUE]
                         ELSE [t_goal_reached |-> t_goal_reached,
                               goal_reached   |-> goal_reached]
                 ELSE clear

\* update_goal_detect that accepts the routepoint of any goal at the goal
\* matched
update_goal_detect_any_goal(tt, g, gsim, r, rsim) ==
    LET clear == [t_goal_reached |-> NoneT, goal_reached |-> goal_reached]
    IN  IF gsim < MinSimilarity THEN clear
        ELSE IF rsim < MinSimilarity THEN clear
        ELSE IF g = 0 THEN clear
        ELSE LET name == Upper(scene.goals_names[g])
             IN  IF \E h \in 1..Len(scene.goals_names) :
                        routepts_vocab[cfg][r]
                            = Upper(scene.goals_names[h]) \o "x" \o "VIEW_" \o name
                    THEN IF t_goal_reached = NoneT
                            THEN [t_goal_reached |-> tt,
                                  goal_reached   |-> goal_reached]
                         ELSE IF tt > t_goal_reached + GoalReachedHold
                            THEN [t_goal_reached |-> NoneT,
                                  goal_reached   |-> TRUE]
                         ELSE [t_goal_reached |-> t_goal_reached,
                               goal_reached   |-> goal_reached]
                 ELSE clear

update_goal_detect(tt, g, gsim, r, rsim) ==
    LET clear == [t_goal_reached |-> NoneT, goal_reached |-> goal_reached]
    IN  IF gsim < MinSimilarity THEN clear
        ELSE IF rsim < MinSimilarity THEN clear
        ELSE IF g = 0 THEN clear
        ELSE LET name == Upper(scene.goals_names[g])
                 routept_sp_key == name \o "x" \o "VIEW_" \o name
             IN  IF routepts_vocab[cfg][r] = routept_sp_key
                    THEN IF t_goal_reached = NoneT
                            THEN [t_goal_reached |-> tt,
                                  goal_reached   |-> goal_reached]
                         ELSE IF tt > t_goal_reached + GoalReachedHold
                            THEN [t_goal_reached |-> NoneT,
                                  goal_reached   |-> TRUE]
                         ELSE [t_goal_reached |-> t_goal_reached,
                               goal_reached   |-> goal_reached]
                 ELSE clear

(***************************************************************************)
(* The qualifying match of goal detection, as a property of the inputs:   *)
(* the goal state resolves to a goal G other than NONE and the previous    *)
(* routepoint resolves to the routepoint of G at G itself.                 *)
(***************************************************************************)
Qualifying(g, gsim, r, rsim) ==
    /\ gsim >= 45
    /\ rsim >= 45
    /\ g # 0
    /\ routepts_vocab[cfg][r]
            = Upper(scene.goals_names[g]) \o "xVIEW_" \o Upper(scene.goals_names[g])

Op(op, arg, raised) == [op |-> op, arg |-> arg, raised |-> raised]

----
(***************************************************************************)
(* Initial state: Model.__init__ before validate_params, in an experiment  *)
(* that has connected to V-REP.                                            *)
(***************************************************************************)
InitGoalVars ==
    /\ goal_reached = FALSE
    /\ goal_name = PyNone
    /\ new_goal_name = "NONE"
    /\ t_new_goal = NoneT
    /\ goal_sp = NoSp
    /\ goal_input_out = [goal_set |-> FALSE, goal |-> ZeroSp]
    /\ t_goal_reached = NoneT
    /\ match_since = NoneT

\* _make_model: the state the displacement and global-vector nodes start from
InitDisplaceVars ==
    /\ bot_pos = params.bot_init_pos
    /\ displace_no = 0
    /\ displaced = FALSE
    /\ t_displace = NoneT
    /\ global_vec = params.init_global_vec
    /\ bot_prev_pos = params.bot_init_pos
    /\ displace_out = FALSE
    /\ jump = <<0, 0>>
    /\ ever_displaced = FALSE

InitCatchVars ==
    /\ catch_area = [waypt_id |-> -1, norm_waypt_dist |-> -1000]
    /\ catch_vec = [vec |-> <<0, 0>>, gain |-> 0]
    /\ view7view = 0

\* _make_model: the gates, the previous routepoint and the action selection
InitActionVars ==
    /\ view = "0"
    /\ gate_view_routept = FALSE
    /\ gate_target_vec = FALSE
    /\ gate_target_vec_goal = FALSE
    /\ gate_routept_cleanup = FALSE
    /\ prev_routept = "0"
    /\ utils = [a \in {"reset", "no_goal", "next2prev_routept",
                        "view2prev_routept", "default"} |-> 0]
    /\ was_following = FALSE
    /\ action = "default"

InitWheelVars ==
    /\ motion_vec = [norm |-> 0, theta |-> 0]
    /\ wheel_speeds = <<0, 0>>
    /\ wheels_velocities = <<0, 0>>

Init ==
    /\ cfg \in 1..Len(Configs)
    /\ pc = "connected"
    /\ network_built = FALSE
    /\ vrep_sim_started = FALSE
    /\ t = 0
    /\ InitGoalVars
    /\ last_op = Op("init", "", FALSE)
    /\ InitDisplaceVars
    /\ displace_first = FALSE
    /\ InitWheelVars
    /\ InitCatchVars
    /\ InitActionVars

\* experiment.py: assert sim_dt_ratio == round(sim_dt_ratio)
ValidateSimDt ==
    /\ pc = "connected"
    /\ pc' = IF sim_dt_ratio_ok(params) THEN "dt_validated" ELSE "aborted"
    /\ last_op' = Op("validate_sim_dt", "", ~sim_dt_ratio_ok(params))
    /\ UNCHANGED <<cfg, network_built, vrep_sim_started, t, goalVars,
                   dispVars, wheelVars, catchVars, actVars>>

\* experiment.py: model = Model(params, scene, vrep_comm)
ModelInit ==
    /\ pc = "dt_validated"
    /\ LET res == validate_params(params, scene)
       IN  /\ pc' = IF res = "ok" THEN "model_created" ELSE "failed"
           /\ network_built' = (res = "ok")
           /\ last_op' = Op("model_init", res, res # "ok")
    /\ UNCHANGED <<cfg, vrep_sim_started, t, goalVars, dispVars, wheelVars, catchVars, actVars>>

\* experiment.py: vrep_sim.start_sim(); nengo.Simulator(model, dt)
StartSim ==
    /\ pc = "model_created"
    /\ pc' = "running"
    /\ vrep_sim_started' = TRUE
    /\ last_op' = Op("start_sim", "", FALSE)
    /\ UNCHANGED <<cfg, network_built, t, goalVars, dispVars, wheelVars, catchVars, actVars>>

\* model.set_goal(name), before the simulation starts or between two ticks
SetGoal(name) ==
    /\ pc \in {"model_created", "running"}
    /\ LET res == set_goal(name)
       IN  /\ new_goal_name' = res.new_goal_name
           /\ goal_reached' = res.goal_reached
           /\ last_op' = Op("set_goal", name, res.raised)
    /\ UNCHANGED <<lifeVars, t, goal_name, t_new_goal, goal_sp,
                   goal_input_out, t_goal_reached, match_since,
                   dispVars, wheelVars, catchVars, actVars>>

\* one simulation step: the node callbacks of the goal subsystem
Tick(x, g, gsim, r, rsim) ==
    /\ pc = "running"
    /\ t < MaxT
    /\ LET tt == t + params.nengo_sim_dt
           gi == update_goal_input(tt, x)
           gd == update_goal_detect(tt, g, gsim, r, rsim)
       IN  /\ t' = tt
           /\ goal_name' = gi.goal_name
           /\ new_goal_name' = gi.new_goal_name
           /\ t_new_goal' = gi.t_new_goal
           /\ goal_sp' = gi.goal_sp
           /\ goal_input_out' = gi.out
           /\ t_goal_reached' = gd.t_goal_reached
           /\ goal_reached' = gd.goal_reached
           /\ match_since' = IF Qualifying(g, gsim, r, rsim)
                                THEN IF match_since = NoneT THEN tt
                                     ELSE match_since
                             ELSE NoneT
           /\ last_op' = Op("tick", IF gi.computed THEN "diff" ELSE "", FALSE)
    /\ UNCHANGED <<lifeVars, dispVars, wheelVars, catchVars, actVars>>

Next ==
    \/ ValidateSimDt
    \/ ModelInit
    \/ StartSim
    \/ \E name \in GoalArgs : SetGoal(name)
    \/ \E x \in GoalStates(scene), g \in 0..Len(scene.goals_names),
          gsim \in {44, 45}, r \in 1..Len(routepts_vocab[cfg]),
          rsim \in {44, 45} : Tick(x, g, gsim, r, rsim)

Spec == Init /\ [][Next]_vars

----
(***************************************************************************)
(* Displacement and global vector.                                         *)
(***************************************************************************)
VAdd(a, b) == <<a[1] + b[1], a[2] + b[2]>>
VSub(a, b) == <<a[1] - b[1], a[2] - b[2]>>

\* what the robot drives between two ticks
Moves == {<<0, 0>>, <<1, 0>>, <<0, 1>>, <<-1, 0>>, <<0, -1>>}

InBox(p) == p[1] \in 0..MaxPos /\ p[2] \in 0..MaxPos

\* update_displace that holds the signal while t <= t_displace + 0.1
update_displace_le(tt, st) ==
    IF st.displaced
        THEN [displaced |-> FALSE, t_displace |-> tt, out |-> TRUE]
    ELSE IF st.t_displace # NoneT /\ tt <= st.t_displace + DisplaceHold
        THEN [displaced |-> st.displaced, t_displace |-> st.t_displace,
              out |-> TRUE]
    ELSE [displaced |-> st.displaced, t_displace |-> NoneT, out |-> FALSE]

(***************************************************************************)
(* Node displace_inp: update_displace(t), on the fields st it reads.       *)
(***************************************************************************)
update_displace(tt, st) ==
    IF st.displaced
        THEN [displaced |-> FALSE, t_displace |-> tt, out |-> TRUE]
    ELSE IF st.t_displace # NoneT /\ tt < st.t_displace + DisplaceHold
        THEN [displaced |-> st.displaced, t_displace |-> st.t_displace,
              out |-> TRUE]
    ELSE [displaced |-> st.displaced, t_displace |-> NoneT, out |-> FALSE]

\* update_global_vec that looks at the displacement flag only
update_global_vec_flag_only(x, st) ==
    IF ~st.displaced
        THEN LET bot_diff_pos == VSub(x, st.bot_prev_pos)
             IN  IF bot_diff_pos[1] # 0 \/ bot_diff_pos[2] # 0
                    THEN [global_vec   |-> VAdd(st.global_vec, bot_diff_pos),
                          bot_prev_pos |-> VAdd(st.bot_prev_pos, bot_diff_pos)]
                 ELSE [global_vec   |-> st.global_vec,
                       bot_prev_pos |-> st.bot_prev_pos]
    ELSE [global_vec |-> st.global_vec, bot_prev_pos |-> x]

\* update_global_vec with all(bot_diff_pos) in place of any(bot_diff_pos)
update_global_vec_all(x, st) ==
    IF ~st.displaced /\ st.t_displace = NoneT
        THEN LET bot_diff_pos == VSub(x, st.bot_prev_pos)
             IN  IF bot_diff_pos[1] # 0 /\ bot_diff_pos[2] # 0
                    THEN [global_vec   |-> VAdd(st.global_vec, bot_diff_pos),
                          bot_prev_pos |-> VAdd(st.bot_prev_pos, bot_diff_pos)]
                 ELSE [global_vec   |-> st.global_vec,
                       bot_prev_pos |-> st.bot_prev_pos]
    ELSE [global_vec |-> st.global_vec, bot_prev_pos |-> x]

\* update_global_vec that adds the x difference to both components
update_global_vec_index(x, st) ==
    IF ~st.displaced /\ st.t_displace = NoneT
        THEN LET bot_diff_pos == VSub(x, st.bot_prev_pos)
             IN  IF bot_diff_pos[1] # 0 \/ bot_diff_pos[2] # 0
                    THEN [global_vec   |-> VAdd(st.global_vec,
                                <<bot_diff_pos[1], bot_diff_pos[1]>>),
                          bot_prev_pos |-> VAdd(st.bot_prev_pos, bot_diff_pos)]
                 ELSE [global_vec   |-> st.global_vec,
                       bot_prev_pos |-> st.bot_prev_pos]
    ELSE [global_vec |-> st.global_vec, bot_prev_pos |-> x]

(***************************************************************************)
(* Node global_vec_inp: update_global_vec(t, x), on the fields st it reads *)
(* and writes.                                                             *)
(***************************************************************************)
update_global_vec(x, st) ==
    IF ~st.displaced /\ st.t_displace = NoneT
        THEN LET bot_diff_pos == VSub(x, st.bot_prev_pos)
             IN  IF bot_diff_pos[1] # 0 \/ bot_diff_pos[2] # 0
                    THEN [global_vec   |-> VAdd(st.global_vec, bot_diff_pos),
                          bot_prev_pos |-> VAdd(st.bot_prev_pos, bot_diff_pos)]
                 ELSE [global_vec   |-> st.global_vec,
                       bot_prev_pos |-> st.bot_prev_pos]
    ELSE [global_vec |-> st.global_vec, bot_prev_pos |-> x]

\* a model built from a valid configuration, with the simulation started;
\* the order of the two node callbacks within a step is fixed by the build
InitDisplace ==
    /\ cfg \in {c \in 1..Len(Configs) :
                    /\ sim_dt_ratio_ok(Configs[c].params)
                    /\ validate_params(Configs[c].params, Configs[c].scene) = "ok"}
    /\ pc = "running"
    /\ network_built = TRUE
    /\ vrep_sim_started = TRUE
    /\ t = 0
    /\ InitGoalVars
    /\ last_op = Op("start_sim", "", FALSE)
    /\ InitDisplaceVars
    /\ displace_first \in BOOLEAN
    /\ InitWheelVars
    /\ InitCatchVars
    /\ InitActionVars

\* scene.move_bot(params.bot_releasepts_pos[displace_no])
MoveBot ==
    /\ pc = "running"
    /\ displace_no < Len(params.bot_releasepts_pos)
    /\ LET new_pos == params.bot_releasepts_pos[displace_no + 1]
       IN  /\ bot_pos' = new_pos
           /\ jump' = VAdd(jump, VSub(new_pos, bot_pos))
    /\ displace_no' = displace_no + 1
    /\ last_op' = Op("move_bot", "", FALSE)
    /\ UNCHANGED <<lifeVars, t, goalVars, displaced, t_displace, global_vec,
                   bot_prev_pos, displace_out, displace_first, ever_displaced,
                   wheelVars, catchVars, actVars>>

\* model.on_displace()
OnDisplace ==
    /\ pc = "running"
    /\ displaced' = TRUE
    /\ ever_displaced' = TRUE
    /\ last_op' = Op("on_displace", "", FALSE)
    /\ UNCHANGED <<lifeVars, t, goalVars, bot_pos, displace_no, t_displace,
                   global_vec, bot_prev_pos, displace_out, displace_first,
                   jump, wheelVars, catchVars, actVars>>

\* one simulation step: the robot has driven by d, then the node callbacks
\* update_displace and update_global_vec run in the order of the build
DisplaceTick(d) ==
    /\ pc = "running"
    /\ t < MaxT
    /\ InBox(VAdd(bot_pos, d))
    /\ LET tt  == t + params.nengo_sim_dt
           x   == VAdd(bot_pos, d)
           pre == [displaced |-> displaced, t_displace |-> t_displace,
                   global_vec |-> global_vec, bot_prev_pos |-> bot_prev_pos]
           dr  == update_displace(tt, pre)
           mid == [pre EXCEPT !.displaced = dr.displaced,
                              !.t_displace = dr.t_displace]
           gv  == IF displace_first THEN update_global_vec(x, mid)
                  ELSE update_global_vec(x, pre)
       IN  /\ t' = tt
           /\ bot_pos' = x
           /\ displaced' = dr.displaced
           /\ t_displace' = dr.t_displace
           /\ displace_out' = dr.out
           /\ global_vec' = gv.global_vec
           /\ bot_prev_pos' = gv.bot_prev_pos
           /\ jump' = <<0, 0>>
           /\ last_op' = Op("tick", IF jump # <<0, 0>> THEN "jump" ELSE "",
                            FALSE)
    /\ UNCHANGED <<lifeVars, goalVars, displace_no, displace_first,
                   ever_displaced, wheelVars, catchVars, actVars>>

NextDisplace ==
    \/ MoveBot
    \/ OnDisplace
    \/ \E d \in Moves : DisplaceTick(d)

SpecDisplace == InitDisplace /\ [][NextDisplace]_vars

----
(***************************************************************************)
(* Wheel speeds.  The motion vector x is given by its length               *)
(* sqrt(sum(x**2)), in thousandths, and its angle arctan2(x[1], x[0]), in  *)
(* thousandths of a radian; wheel speeds are in thousandths.               *)
(***************************************************************************)
Norms  == {0, 49, 50, 51, 1000}
Thetas == {-3141, -401, -400, -399, 0, 399, 400, 401, 3141}

\* arctan2(0, 0) = 0
MotionVecs ==
    {v \in [norm : Norms, theta : Thetas] : v.norm = 0 => v.theta = 0}

\* update_wheel_speeds that stops at the margin and turns on the spot only
\* beyond the threshold angle
update_wheel_speeds_le(x) ==
    IF x.norm <= StopMargin
        THEN <<0, 0>>
    ELSE IF -ThetaThres <= x.theta /\ x.theta <= ThetaThres
        THEN <<WheelSpeed - x.theta, WheelSpeed + x.theta>>
    ELSE <<-RotationGain * x.theta, RotationGain * x.theta>>

(***************************************************************************)
(* Node wheel_speeds: update_wheel_speeds(t, x).                           *)
(***************************************************************************)
update_wheel_speeds(x) ==
    IF x.norm < StopMargin
        THEN <<0, 0>>
    ELSE IF -ThetaThres < x.theta /\ x.theta < ThetaThres
        THEN <<WheelSpeed - x.theta, WheelSpeed + x.theta>>
    ELSE <<-RotationGain * x.theta, RotationGain * x.theta>>

InitWheel ==
    /\ cfg \in {c \in 1..Len(Configs) :
                    /\ sim_dt_ratio_ok(Configs[c].params)
                    /\ validate_params(Configs[c].params, Configs[c].scene) = "ok"}
    /\ pc = "running"
    /\ network_built = TRUE
    /\ vrep_sim_started = TRUE
    /\ t = 0
    /\ InitGoalVars
    /\ last_op = Op("start_sim", "", FALSE)
    /\ InitDisplaceVars
    /\ displace_first = FALSE
    /\ InitWheelVars
    /\ InitCatchVars
    /\ InitActionVars

\* one simulation step with motion vector x at the input of the node
WheelTick(x) ==
    /\ pc = "running"
    /\ t < MaxT
    /\ t' = t + params.nengo_sim_dt
    /\ motion_vec' = x
    /\ wheel_speeds' = update_wheel_speeds(x)
    /\ wheels_velocities' = update_wheel_speeds(x)
    /\ last_op' = Op("wheel", "", FALSE)
    /\ UNCHANGED <<lifeVars, goalVars, dispVars, catchVars, actVars>>

NextWheel == \E x \in MotionVecs : WheelTick(x)

SpecWheel == InitWheel /\ [][NextWheel]_vars

----
(***************************************************************************)
(* Catchment area and catchment vector.  The normalized distance and the   *)
(* gain are in thousandths, rounded down; -1.0 is -1000.                   *)
(***************************************************************************)
RECURSIVE SqrtBetween(_, _, _)
SqrtBetween(n, lo, hi) ==
    IF lo = hi THEN lo
    ELSE LET mid == (lo + hi + 1) \div 2
         IN  IF mid * mid <= n THEN SqrtBetween(n, mid, hi)
             ELSE SqrtBetween(n, lo, mid - 1)

\* min_waypts_dist / catch_area_radius for a squared distance sq < radius^2
NormDist(sq, radius) ==
    SqrtBetween((1000000 * sq) \div (radius * radius), 0, 1000)

\* division rounding towards zero, for b > 0
TDiv(a, b) == IF a >= 0 THEN a \div b ELSE -((-a) \div b)

Abs(a) == IF a >= 0 THEN a ELSE -a

Min(a, b) == IF a <= b THEN a ELSE b

\* numpy argmin: the first index (from 0) of the smallest element
ArgMin(seq) ==
    (CHOOSE i \in 1..Len(seq) :
        /\ \A j \in 1..Len(seq) : seq[i] <= seq[j]
        /\ \A j \in 1..(i - 1) : seq[j] > seq[i]) - 1

\* update_catch_area with the radius included in the catchment area
update_catch_area_le(x) ==
    LET waypts_square_dists_x ==
            [w \in 1..Len(scene.waypts_pos) |-> SqDist(scene.waypts_pos[w], x)]
        w0 == ArgMin(waypts_square_dists_x)
        sq == waypts_square_dists_x[w0 + 1]
        r  == params.catch_area_radius
    IN  IF sq <= r * r /\ r > 0
            THEN [waypt_id |-> w0,
                  norm_waypt_dist |-> NormDist(sq, r)]
        ELSE [waypt_id |-> -1, norm_waypt_dist |-> -1000]

(***************************************************************************)
(* Node catch_area_inp: update_catch_area(t, x), x the robot position.     *)
(* min_waypts_dist < radius is decided on the squares.                     *)
(***************************************************************************)
update_catch_area(x) ==
    LET waypts_square_dists_x ==
            [w \in 1..Len(scene.waypts_pos) |-> SqDist(scene.waypts_pos[w], x)]
        w0 == ArgMin(waypts_square_dists_x)
        sq == waypts_square_dists_x[w0 + 1]
        r  == params.catch_area_radius
    IN  IF sq < r * r /\ r > 0
            THEN [waypt_id |-> w0,
                  norm_waypt_dist |-> NormDist(sq, r)]
        ELSE [waypt_id |-> -1, norm_waypt_dist |-> -1000]

(***************************************************************************)
(* Node catch_vec_inp: update_catch_vec(t, x) with x = (waypt_id,          *)
(* norm_waypt_dist, bot_pos, view7view).  catch_vec_norm is                *)
(* np.sqrt(catch_vec**2).sum(), the sum of the absolute components.        *)
(***************************************************************************)
update_catch_vec(x) ==
    IF x.norm_waypt_dist > 0 /\ x.view7view > params.catch_vec_thres
        THEN LET cv == VSub(scene.waypts_pos[x.waypt_id + 1], x.bot_pos)
                 catch_vec_norm == Abs(cv[1]) + Abs(cv[2])
                 catch_vec_gain ==
                    Min(TDiv((1000 - x.norm_waypt_dist) * 1000,
                             1000 - 10 * params.catch_vec_core), 1000)
             IN  [vec  |-> <<TDiv(cv[1] * 1000, catch_vec_norm),
                             TDiv(cv[2] * 1000, catch_vec_norm)>>,
                  gain |-> catch_vec_gain]
    ELSE [vec |-> <<0, 0>>, gain |-> 0]

\* the view comparator's output, in hundredths, as read by catch_vec_inp
View7ViewValues == {0, 20, 21}

InCatchBox(p) == p[1] \in 0..MaxCoord /\ p[2] \in 0..MaxCoord

\* a model built from a valid configuration, the simulation started, the
\* robot anywhere in the scene (params.bot_init_pos is None)
InitCatch ==
    /\ cfg \in {c \in 1..Len(Configs) :
                    /\ sim_dt_ratio_ok(Configs[c].params)
                    /\ validate_params(Configs[c].params, Configs[c].scene) = "ok"}
    /\ pc = "running"
    /\ network_built = TRUE
    /\ vrep_sim_started = TRUE
    /\ t = 0
    /\ InitGoalVars
    /\ last_op = Op("start_sim", "", FALSE)
    /\ bot_pos \in (0..MaxCoord) \X (0..MaxCoord)
    /\ displace_no = 0
    /\ displaced = FALSE
    /\ t_displace = NoneT
    /\ global_vec = params.init_global_vec
    /\ bot_prev_pos = params.bot_init_pos
    /\ displace_out = FALSE
    /\ displace_first = FALSE
    /\ jump = <<0, 0>>
    /\ ever_displaced = FALSE
    /\ InitWheelVars
    /\ InitCatchVars
    /\ InitActionVars

\* the two callbacks of one simulation step, after the robot has driven by
\* d: catch_area_inp feeds catch_vec_inp within the step (synapse=None);
\* neither callback reads the time, which is left out of this step
CatchTick(d, v) ==
    /\ pc = "running"
    /\ InCatchBox(VAdd(bot_pos, d))
    /\ LET x  == VAdd(bot_pos, d)
           ca == update_catch_area(x)
       IN  /\ bot_pos' = x
           /\ catch_area' = ca
           /\ view7view' = v
           /\ catch_vec' = update_catch_vec(
                    [waypt_id |-> ca.waypt_id,
                     norm_waypt_dist |-> ca.norm_waypt_dist,
                     bot_pos |-> x, view7view |-> v])
    /\ last_op' = Op("catch", "", FALSE)
    /\ UNCHANGED <<lifeVars, t, goalVars, displace_no, displaced, t_displace,
                   global_vec, bot_prev_pos, displace_out, displace_first,
                   jump, ever_displaced, wheelVars, actVars>>

NextCatch == \E d \in Moves, v \in View7ViewValues : CatchTick(d, v)

SpecCatch == InitCatch /\ [][NextCatch]_vars

----
(***************************************************************************)
(* Action selection.  The utilities and the effects are those of the       *)
(* spa.Actions of the model; the basal ganglia and the thalamus are taken  *)
(* to execute one action of greatest utility, and no order among actions   *)
(* of equal utility is defined.  Utilities are in hundredths.  A gate with *)
(* feedback holds the value an action gave it last; a gate without         *)
(* feedback is at 1 only while an action drives it.                        *)
(***************************************************************************)
ActionNames ==
    <<"reset", "no_goal", "next2prev_routept", "view2prev_routept", "default">>

DefaultUtility == 50   \* default='0.5 -->'
View7ViewCoeff == 50   \* 0.5 * view7view

\* the waypoint whose view is seen, and the comparator's output with it
Views == {"0", "Nest", "Feed1", "Waypoint1"}
View7ViewOf(v) == IF v = "0" THEN {0} ELSE {0, 60, 100}

\* input of gate_reset: displace_inp plus goal_input[0]
gate_reset_input(displace, goal_set) ==
    (IF displace THEN 1 ELSE 0) + (IF goal_set THEN 1 ELSE 0)

\* gate_reset fed by goal_input[0] only
utilities_no_displace(displace, goal_set, goal, v7v, gvr) ==
    [a \in {ActionNames[i] : i \in 1..Len(ActionNames)} |->
        CASE a = "reset"   -> 100 * gate_reset_input(FALSE, goal_set)
          [] a = "no_goal" -> IF goal = "NONE" THEN 100 ELSE 0
          [] a = "next2prev_routept" ->
                (View7ViewCoeff * v7v) \div 100
                    + params.action_n2pr_coeff_gvr * (IF gvr THEN 1 ELSE 0)
          [] a = "view2prev_routept" ->
                (View7ViewCoeff * v7v) \div 100
                    - params.action_v2pr_coeff_gvr * (IF gvr THEN 1 ELSE 0)
                    + params.action_v2pr_coeff_intercept
          [] a = "default" -> DefaultUtility]

\* utilities whose view2prev_routept condition leaves out gate_view_routept
utilities_v2pr_ungated(displace, goal_set, goal, v7v, gvr) ==
    [a \in {ActionNames[i] : i \in 1..Len(ActionNames)} |->
        CASE a = "reset"   -> 100 * gate_reset_input(displace, goal_set)
          [] a = "no_goal" -> IF goal = "NONE" THEN 100 ELSE 0
          [] a = "next2prev_routept" ->
                (View7ViewCoeff * v7v) \div 100
                    + params.action_n2pr_coeff_gvr * (IF gvr THEN 1 ELSE 0)
          [] a = "view2prev_routept" ->
                (View7ViewCoeff * v7v) \div 100
                    + params.action_v2pr_coeff_intercept
          [] a = "default" -> DefaultUtility]

(***************************************************************************)
(* The utilities: the conditions of the actions, from the outputs of the   *)
(* displacement and goal nodes, the current goal, the view comparator and  *)
(* gate_view_routept.                                                      *)
(***************************************************************************)
utilities(displace, goal_set, goal, v7v, gvr) ==
    [a \in {ActionNames[i] : i \in 1..Len(ActionNames)} |->
        CASE a = "reset"   -> 100 * gate_reset_input(displace, goal_set)
          [] a = "no_goal" -> IF goal = "NONE" THEN 100 ELSE 0
          [] a = "next2prev_routept" ->
                (View7ViewCoeff * v7v) \div 100
                    + params.action_n2pr_coeff_gvr * (IF gvr THEN 1 ELSE 0)
          [] a = "view2prev_routept" ->
                (View7ViewCoeff * v7v) \div 100
                    - params.action_v2pr_coeff_gvr * (IF gvr THEN 1 ELSE 0)
                    + params.action_v2pr_coeff_intercept
          [] a = "default" -> DefaultUtility]

\* spa.BasalGanglia / spa.Thalamus: the actions of greatest utility
bg_winners(u) == {a \in DOMAIN u : \A b \in DOMAIN u : u[a] >= u[b]}

\* the routepoint bound from goal and the view of waypoint v, in scene c:
\* a key of the routepoints vocabulary, or "0" when there is none
goal0view_key(c, goal, v) ==
    IF v = "0" \/ goal \in {PyNone, "NONE"} THEN "0"
    ELSE LET key == Upper(goal) \o "x" \o "VIEW_" \o Upper(v)
         IN  IF \E i \in 1..Len(routepts_vocab[c]) : routepts_vocab[c][i] = key
                THEN key ELSE "0"

goal0view_table ==
    [c \in 1..Len(Configs) |->
        [goal \in {PyNone, "NONE", "Nest", "Feed1"} |->
            [v \in Views |-> goal0view_key(c, goal, v)]]]

\* goal0view: the routepoint bound from the current goal and the view seen
goal0view(goal, v) == goal0view_table[cfg][goal][v]

\* the concatenation of the sequences of a sequence
RECURSIVE Flatten(_)
Flatten(ss) == IF ss = <<>> THEN <<>> ELSE Head(ss) \o Flatten(Tail(ss))

\* routes_routepts_sp_keys of scene s
routes_routepts_sp_keys(s) ==
    [r \in 1..Len(s.routes_waypts_names) |->
        route_routepts_sp_keys(s.routes_waypts_names[r])]

\* input_keys and output_keys of prev2next_routepts: of every route, the
\* keys but the last, and the keys but the first
prev2next_input_keys(s) ==
    Flatten([r \in 1..Len(s.routes_waypts_names) |->
                SubSeq(routes_routepts_sp_keys(s)[r], 1,
                       Len(routes_routepts_sp_keys(s)[r]) - 1)])

prev2next_output_keys(s) ==
    Flatten([r \in 1..Len(s.routes_waypts_names) |->
                Tail(routes_routepts_sp_keys(s)[r])])

\* the output keys the memory of scene s associates with the input key
prev2next_successors(s, key) ==
    {prev2next_output_keys(s)[i] :
        i \in {j \in 1..Len(prev2next_input_keys(s)) :
                    prev2next_input_keys(s)[j] = key}}

prev2next_table ==
    [c \in 1..Len(Configs) |->
        [key \in {"0"} \cup {routepts_vocab[c][i] :
                                i \in 1..Len(routepts_vocab[c])} |->
            prev2next_successors(Configs[c].scene, key)]]

\* prev2next_routepts: what the memory may retrieve for the routepoint held
\* ("0": nothing); with several outputs associated with one input key the
\* source does not determine which is retrieved
prev2next_routepts(key) ==
    IF prev2next_table[cfg][key] = {} THEN {"0"} ELSE prev2next_table[cfg][key]

\* the position of the waypoint called name in scene s
waypt_pos(s, name) ==
    s.waypts_pos[CHOOSE i \in 1..Len(s.waypts_names) : s.waypts_names[i] = name]

\* scene.routes_waypts_pos: the positions of the waypoints of every route
routes_waypts_pos(s) ==
    [r \in 1..Len(s.routes_waypts_names) |->
        [i \in 1..Len(s.routes_waypts_names[r]) |->
            waypt_pos(s, s.routes_waypts_names[r][i])]]

\* (q - p) / sqrt(((q - p)**2).sum()), in thousandths, for p # q
norm_local_vec(p, q) ==
    LET d == VSub(q, p)
        n == SqrtBetween(10000 * SqDist(p, q), 0, 20000)
    IN  <<TDiv(100000 * d[1], n), TDiv(100000 * d[2], n)>>

\* routes_norm_local_vecs: for every waypoint of a route the normalized
\* vector to the next one, and the zero vector for the last
routes_norm_local_vecs(s) ==
    [r \in 1..Len(s.routes_waypts_names) |->
        [i \in 1..Len(s.routes_waypts_names[r]) |->
            IF i = Len(s.routes_waypts_names[r]) THEN <<0, 0>>
            ELSE norm_local_vec(routes_waypts_pos(s)[r][i],
                                routes_waypts_pos(s)[r][i + 1])]]

\* routepts2norm_local_vecs: the vectors the memory of scene s associates
\* with the routepoint key
routepts2norm_local_vecs(s, key) ==
    {routes_norm_local_vecs(s)[ri[1]][ri[2]] :
        ri \in {rj \in (1..Len(s.routes_waypts_names)) \X (1..Len(s.waypts_names)) :
                    /\ rj[2] <= Len(s.routes_waypts_names[rj[1]])
                    /\ routes_routepts_sp_keys(s)[rj[1]][rj[2]] = key}}

routepts2norm_local_vecs_table ==
    [c \in 1..Len(Configs) |->
        [key \in {routepts_vocab[c][i] : i \in 1..Len(routepts_vocab[c])} |->
            routepts2norm_local_vecs(Configs[c].scene, key)]]

\* the effects with view2prev_routept leaving gate_target_vec alone
action_effects_no_target_gate(a, goal, v, n) ==
    [gate_view_routept |->
        CASE a = "reset" -> FALSE
          [] a = "view2prev_routept" -> TRUE
          [] OTHER -> gate_view_routept,
     gate_target_vec |->
        CASE a = "reset" -> FALSE
          [] OTHER -> gate_target_vec,
     gate_target_vec_goal |-> (a = "no_goal"),
     gate_routept_cleanup |-> (a \in {"reset", "next2prev_routept"}),
     prev_routept |->
        CASE a = "reset" -> "0"
          [] a = "next2prev_routept" -> n
          [] a = "view2prev_routept" ->
                IF goal0view(goal, v) # "0" THEN goal0view(goal, v)
                ELSE prev_routept
          [] OTHER -> prev_routept]

\* the effects with reset leaving gate_target_vec alone
action_effects_reset_keeps_target(a, goal, v, n) ==
    [gate_view_routept |->
        CASE a = "reset" -> FALSE
          [] a = "view2prev_routept" -> TRUE
          [] OTHER -> gate_view_routept,
     gate_target_vec |->
        CASE a = "view2prev_routept" -> TRUE
          [] OTHER -> gate_target_vec,
     gate_target_vec_goal |-> (a = "no_goal"),
     gate_routept_cleanup |-> (a \in {"reset", "next2prev_routept"}),
     prev_routept |->
        CASE a = "reset" -> "0"
          [] a = "next2prev_routept" -> n
          [] a = "view2prev_routept" ->
                IF goal0view(goal, v) # "0" THEN goal0view(goal, v)
                ELSE prev_routept
          [] OTHER -> prev_routept]

(***************************************************************************)
(* The effects of the executed action a on the gates and on the previous   *)
(* routepoint; goal is the current goal, v the view seen, n the next       *)
(* routepoint retrieved.  While the cleanup memory is inhibited,           *)
(* prev_routept keeps only what the action loads into it.                  *)
(***************************************************************************)
action_effects(a, goal, v, n) ==
    [gate_view_routept |->
        CASE a = "reset" -> FALSE
          [] a = "view2prev_routept" -> TRUE
          [] OTHER -> gate_view_routept,
     gate_target_vec |->
        CASE a = "reset" -> FALSE
          [] a = "view2prev_routept" -> TRUE
          [] OTHER -> gate_target_vec,
     gate_target_vec_goal |-> (a = "no_goal"),
     gate_routept_cleanup |-> (a \in {"reset", "next2prev_routept"}),
     prev_routept |->
        CASE a = "reset" -> "0"
          [] a = "next2prev_routept" -> n
          [] a = "view2prev_routept" ->
                IF goal0view(goal, v) # "0" THEN goal0view(goal, v)
                ELSE prev_routept
          [] OTHER -> prev_routept]

\* a model built from a valid configuration, with the simulation started
InitActions ==
    /\ cfg \in {c \in 1..Len(Configs) :
                    /\ sim_dt_ratio_ok(Configs[c].params)
                    /\ validate_params(Configs[c].params, Configs[c].scene) = "ok"}
    /\ pc = "running"
    /\ network_built = TRUE
    /\ vrep_sim_started = TRUE
    /\ t = 0
    /\ InitGoalVars
    /\ last_op = Op("start_sim", "", FALSE)
    /\ InitDisplaceVars
    /\ displace_first = FALSE
    /\ InitWheelVars
    /\ InitCatchVars
    /\ InitActionVars

\* one simulation step: the displacement and goal nodes, then the action
\* selection on their outputs, with the view of waypoint v seen and the
\* comparator at c; a is the action executed, n the next routepoint that
\* prev2next_routepts retrieves
ActionTick(v, c, a, n) ==
    /\ pc = "running"
    /\ t < MaxT
    /\ LET tt == t + params.nengo_sim_dt
           dr == update_displace(tt, [displaced |-> displaced,
                                      t_displace |-> t_displace])
           gi == update_goal_input(tt, IF goal_name = PyNone THEN "ZERO"
                                       ELSE Upper(goal_name))
           u  == utilities(dr.out, gi.out.goal_set, gi.goal_name, c,
                           gate_view_routept)
           e  == action_effects(a, gi.goal_name, v, n)
       IN  /\ a \in bg_winners(u)
           /\ t' = tt
           /\ displaced' = dr.displaced
           /\ t_displace' = dr.t_displace
           /\ displace_out' = dr.out
           /\ goal_name' = gi.goal_name
           /\ new_goal_name' = gi.new_goal_name
           /\ t_new_goal' = gi.t_new_goal
           /\ goal_sp' = gi.goal_sp
           /\ goal_input_out' = gi.out
           /\ view' = v
           /\ view7view' = c
           /\ utils' = u
           /\ action' = a
           /\ was_following' = (/\ prev_routept # "0"
                                /\ gate_view_routept
                                /\ gate_target_vec)
           /\ gate_view_routept' = e.gate_view_routept
           /\ gate_target_vec' = e.gate_target_vec
           /\ gate_target_vec_goal' = e.gate_target_vec_goal
           /\ gate_routept_cleanup' = e.gate_routept_cleanup
           /\ prev_routept' = e.prev_routept
    /\ last_op' = Op("act", a, FALSE)
    /\ UNCHANGED <<lifeVars, goal_reached, t_goal_reached, match_since,
                   bot_pos, displace_no, global_vec, bot_prev_pos,
                   displace_first, jump, ever_displaced, wheelVars,
                   catch_area, catch_vec>>

NextActions ==
    \/ \E name \in {"Nest", "Feed1"} : SetGoal(name)
    \/ OnDisplace
    \/ \E v \in Views : \E c \in View7ViewOf(v) :
          \E a \in {ActionNames[i] : i \in 1..Len(ActionNames)} :
            \E n \in prev2next_routepts(prev_routept) :
              ActionTick(v, c, a, n)

SpecActions == InitActions /\ [][NextActions]_vars

----
----
(***************************************************************************)
(* The displacement experiment: the simulation loop of                     *)
(* experiments/displacement/experiment.py, from the first test of the loop *)
(* condition to vrep_sim.stop_sim.  MaxT is params.sim_duration.  A cycle  *)
(* is nengo_sim.run(params.sim_cycle_duration), executed tick by tick.     *)
(* Exceptions raised by the libraries are not modelled.                    *)
(***************************************************************************)
n_displaces == Len(params.bot_releasepts_pos)

\* bot_displacept_dist < params.bot_displacept_dist_thres, on the squares
near_displacept(pos) ==
    SqDist(params.bot_displacept_pos, pos)
        < params.bot_displacept_dist_thres * params.bot_displacept_dist_thres

\* the model created, set_goal(params.goal) called and the simulation started
InitExperiment ==
    /\ cfg \in {c \in 1..Len(Configs) :
                    /\ sim_dt_ratio_ok(Configs[c].params)
                    /\ validate_params(Configs[c].params, Configs[c].scene) = "ok"}
    /\ pc = "loop_top"
    /\ network_built = TRUE
    /\ vrep_sim_started = TRUE
    /\ t = 0
    /\ goal_reached = FALSE
    /\ goal_name = PyNone
    /\ new_goal_name = params.goal
    /\ t_new_goal = NoneT
    /\ goal_sp = NoSp
    /\ goal_input_out = [goal_set |-> FALSE, goal |-> ZeroSp]
    /\ t_goal_reached = NoneT
    /\ match_since = NoneT
    /\ last_op = Op("start_sim", "", FALSE)
    /\ InitDisplaceVars
    /\ displace_first = FALSE
    /\ InitWheelVars
    /\ InitCatchVars
    /\ InitActionVars

\* if model.goal_reached: scene.bot.wheels.set_velocities((0.0, 0.0)); break
ExpGoalReached ==
    /\ pc = "loop_top"
    /\ t < MaxT
    /\ goal_reached
    /\ wheels_velocities' = <<0, 0>>
    /\ pc' = "loop_ended"
    /\ last_op' = Op("stop_wheels", "goal_reached", FALSE)
    /\ UNCHANGED <<cfg, network_built, vrep_sim_started, t, goalVars, dispVars,
                   motion_vec, wheel_speeds, catchVars, actVars>>

\* the end of the loop at the end of the simulated time without the command
\* to the wheels
ExpTimeUp_no_stop ==
    /\ pc = "loop_top"
    /\ ~(t < MaxT)
    /\ pc' = "loop_ended"
    /\ last_op' = Op("stop_wheels", "time_up", FALSE)
    /\ UNCHANGED <<cfg, network_built, vrep_sim_started, t, goalVars, dispVars,
                   wheelVars, catchVars, actVars>>

\* while ... else: scene.bot.wheels.set_velocities((0.0, 0.0))
ExpTimeUp ==
    /\ pc = "loop_top"
    /\ ~(t < MaxT)
    /\ wheels_velocities' = <<0, 0>>
    /\ pc' = "loop_ended"
    /\ last_op' = Op("stop_wheels", "time_up", FALSE)
    /\ UNCHANGED <<cfg, network_built, vrep_sim_started, t, goalVars, dispVars,
                   motion_vec, wheel_speeds, catchVars, actVars>>

\* scene.move_bot(params.bot_releasepts_pos[displace_no], ...)
ExpMoveBot ==
    /\ pc = "loop_top"
    /\ t < MaxT
    /\ ~goal_reached
    /\ displace_no < n_displaces
    /\ near_displacept(bot_pos)
    /\ LET new_pos == params.bot_releasepts_pos[displace_no + 1]
       IN  /\ bot_pos' = new_pos
           /\ jump' = VAdd(jump, VSub(new_pos, bot_pos))
    /\ pc' = "moved"
    /\ last_op' = Op("move_bot", "", FALSE)
    /\ UNCHANGED <<cfg, network_built, vrep_sim_started, t, goalVars,
                   displace_no, displaced, t_displace, global_vec,
                   bot_prev_pos, displace_out, displace_first, ever_displaced,
                   wheelVars, catchVars, actVars>>

\* model.on_displace(); displace_no += 1
ExpOnDisplace ==
    /\ pc = "moved"
    /\ displaced' = TRUE
    /\ ever_displaced' = TRUE
    /\ displace_no' = displace_no + 1
    /\ pc' = "cycle"
    /\ last_op' = Op("on_displace", "", FALSE)
    /\ UNCHANGED <<cfg, network_built, vrep_sim_started, t, goalVars, bot_pos,
                   t_displace, global_vec, bot_prev_pos, displace_out,
                   displace_first, jump, wheelVars, catchVars, actVars>>

\* no displacement in this pass of the loop
ExpNoDisplace ==
    /\ pc = "loop_top"
    /\ t < MaxT
    /\ ~goal_reached
    /\ ~(displace_no < n_displaces /\ near_displacept(bot_pos))
    /\ pc' = "cycle"
    /\ last_op' = Op("no_displace", "", FALSE)
    /\ UNCHANGED <<cfg, network_built, vrep_sim_started, t, goalVars, dispVars,
                   wheelVars, catchVars, actVars>>

\* one simulation step of nengo_sim.run(params.sim_cycle_duration): the
\* robot has driven by d, the goal and displacement nodes run, goal
\* detection reads (g, gsim, r, rsim), and the wheel speeds computed from
\* the motion vector x are sent to the robot
ExpTick(d, g, gsim, r, rsim, x) ==
    /\ pc = "cycle"
    /\ InBox(VAdd(bot_pos, d))
    /\ LET tt  == t + params.nengo_sim_dt
           pos == VAdd(bot_pos, d)
           pre == [displaced |-> displaced, t_displace |-> t_displace,
                   global_vec |-> global_vec, bot_prev_pos |-> bot_prev_pos]
           dr  == update_displace(tt, pre)
           mid == [pre EXCEPT !.displaced = dr.displaced,
                              !.t_displace = dr.t_displace]
           gv  == IF displace_first THEN update_global_vec(pos, mid)
                  ELSE update_global_vec(pos, pre)
           gi  == update_goal_input(tt, IF goal_name = PyNone THEN "ZERO"
                                        ELSE Upper(goal_name))
           gd  == update_goal_detect(tt, g, gsim, r, rsim)
       IN  /\ t' = tt
           /\ bot_pos' = pos
           /\ displaced' = dr.displaced
           /\ t_displace' = dr.t_displace
           /\ displace_out' = dr.out
           /\ global_vec' = gv.global_vec
           /\ bot_prev_pos' = gv.bot_prev_pos
           /\ jump' = <<0, 0>>
           /\ goal_name' = gi.goal_name
           /\ new_goal_name' = gi.new_goal_name
           /\ t_new_goal' = gi.t_new_goal
           /\ goal_sp' = gi.goal_sp
           /\ goal_input_out' = gi.out
           /\ t_goal_reached' = gd.t_goal_reached
           /\ goal_reached' = gd.goal_reached
           /\ match_since' = IF Qualifying(g, gsim, r, rsim)
                                THEN IF match_since = NoneT THEN tt
                                     ELSE match_since
                             ELSE NoneT
           /\ motion_vec' = x
           /\ wheel_speeds' = update_wheel_speeds(x)
           /\ wheels_velocities' = update_wheel_speeds(x)
           /\ pc' = IF tt % params.sim_cycle_duration = 0 THEN "loop_top"
                    ELSE "cycle"
           /\ last_op' = Op("tick", IF jump # <<0, 0>> THEN "jump" ELSE "",
                            FALSE)
    /\ UNCHANGED <<cfg, network_built, vrep_sim_started, displace_no,
                   displace_first, ever_displaced, catchVars, actVars>>

\* finally: vrep_sim.stop_sim()
ExpStopSim ==
    /\ pc = "loop_ended"
    /\ vrep_sim_started' = FALSE
    /\ pc' = "sim_stopped"
    /\ last_op' = Op("stop_sim", "", FALSE)
    /\ UNCHANGED <<cfg, network_built, t, goalVars, dispVars, wheelVars,
                   catchVars, actVars>>

\* what goal detection reads at a tick: no match, or a goal and a
\* routepoint both matched
DetectInputs ==
    {<<0, 44, 1, 44>>}
        \cup {<<g, 45, r, 45>> : g \in 1..Len(scene.goals_names),
                                 r \in 1..Len(routepts_vocab[cfg])}

NextExperiment ==
    \/ ExpGoalReached
    \/ ExpTimeUp
    \/ ExpMoveBot
    \/ ExpOnDisplace
    \/ ExpNoDisplace
    \/ \E d \in Moves, inp \in DetectInputs,
          x \in {[norm |-> 0, theta |-> 0], [norm |-> 1000, theta |-> 0]} :
            ExpTick(d, inp[1], inp[2], inp[3], inp[4], x)
    \/ ExpStopSim

SpecExperiment == InitExperiment /\ [][NextExperiment]_vars

(***************************************************************************)
(* Properties of set_goal, goal input and goal detection.                  *)
(***************************************************************************)
IsGoalName(name) ==
    \E g \in 1..Len(scene.goals_names) : scene.goals_names[g] = name

\* C1: every set_goal call with a name that is not one of the scene's goal
\* names raises an error, whatever the state of the controller.
C1_UnknownGoalRaises ==
    (last_op.op = "set_goal" /\ ~IsGoalName(last_op.arg)) => last_op.raised

\* C2: a set_goal call that raises leaves the current goal name, the
\* pending goal change and the goal-reached flag as they were.
C2_FailedSetGoalChangesNothing ==
    [][(last_op'.op = "set_goal" /\ last_op'.raised)
        => UNCHANGED <<goal_name, new_goal_name, goal_reached>>]_vars

C2_Witness ==
    /\ last_op.op = "set_goal"
    /\ last_op.raised
    /\ goal_reached

\* C3: set_goal with the goal that is already current changes neither the
\* pending-goal marker nor the goal-reached flag (nor anything else of the
\* goal input), and a tick that finds no pending goal starts no new
\* goal-set pulse and computes no goal-code difference.
C3_SameGoalIsNoOp ==
    [][/\ (last_op'.op = "set_goal" /\ last_op'.arg = goal_name)
            => /\ ~last_op'.raised
               /\ UNCHANGED <<new_goal_name, goal_reached, goal_name,
                              t_new_goal, goal_sp, goal_input_out>>
       /\ (last_op'.op = "tick" /\ new_goal_name = PyNone)
            => /\ last_op'.arg # "diff"
               /\ t_new_goal' # t'
               /\ goal_name' = goal_name
               /\ goal_input_out'.goal_set
                    => /\ goal_input_out.goal_set
                       /\ goal_input_out'.goal = goal_input_out.goal]_vars

C3_Witness ==
    /\ last_op.op = "set_goal"
    /\ last_op.arg = goal_name
    /\ IsGoalName(last_op.arg)
    /\ goal_reached
    /\ new_goal_name = PyNone

\* C4: set_goal with a valid goal other than the current one clears the
\* goal-reached flag at once and marks the goal as pending; the next tick
\* makes it the current goal, clears the marker and computes the difference
\* between its code and the goal state; the goal-set signal and that same
\* difference are output at the ticks less than 0.1 s after that tick, and
\* from then on the signal is false and the difference zero.
C4_GoalChangePulse ==
    [][/\ (last_op'.op = "set_goal" /\ ~last_op'.raised
                /\ last_op'.arg # goal_name)
            => /\ goal_reached' = FALSE
               /\ new_goal_name' = last_op'.arg
       /\ (last_op'.op = "tick" /\ new_goal_name # PyNone)
            => /\ goal_name' = new_goal_name
               /\ new_goal_name' = PyNone
               /\ t_new_goal' = t'
               /\ last_op'.arg = "diff"
               /\ goal_input_out'.goal_set
               /\ goal_input_out'.goal.plus = Upper(new_goal_name)
               /\ goal_input_out'.goal.minus \in GoalStates(scene)
       /\ (last_op'.op = "tick" /\ new_goal_name = PyNone)
            => /\ goal_input_out'.goal_set
                    <=> (t_new_goal # NoneT /\ t' - t_new_goal < 100)
               /\ goal_input_out'.goal_set
                    => (t_new_goal' = t_new_goal
                        /\ goal_input_out'.goal = goal_input_out.goal)
               /\ ~goal_input_out'.goal_set
                    => (t_new_goal' = NoneT
                        /\ goal_input_out'.goal = ZeroSp)]_vars

C4_Witness ==
    /\ last_op.op = "tick"
    /\ IsGoalName(goal_name)
    /\ ~goal_input_out.goal_set
    /\ goal_input_out.goal = ZeroSp
    /\ t_new_goal = NoneT
    /\ new_goal_name = PyNone

\* C5: the goal-reached flag turns true only at a tick with a qualifying
\* match that ends an unbroken run of qualifying ticks at least 0.2 s long;
\* a tick without the qualifying match clears the timer and leaves the flag
\* alone; and a qualifying tick more than 0.2 s after the timer was started
\* raises the flag.
C5_GoalReachedDebounce ==
    [][/\ (~goal_reached /\ goal_reached')
            => /\ last_op'.op = "tick"
               /\ match_since' # NoneT
               /\ t' - match_since' >= 200
       /\ (last_op'.op = "tick" /\ match_since' = NoneT)
            => /\ t_goal_reached' = NoneT
               /\ goal_reached' = goal_reached
       /\ t_goal_reached' # NoneT
            => (match_since' # NoneT /\ match_since' <= t_goal_reached')
       /\ (last_op'.op = "tick" /\ match_since' # NoneT
                /\ t_goal_reached # NoneT /\ t' - t_goal_reached > 200)
            => goal_reached']_vars

C5_Witness ==
    /\ last_op.op = "tick"
    /\ goal_reached
    /\ match_since # NoneT
    /\ t - match_since > 200

----
(***************************************************************************)
(* Properties of the validation of the configuration.                      *)
(***************************************************************************)
\* the configuration-time conditions, as the specification lists them
ConfigValid(p, s) ==
    /\ Len(s.goals_names) >= 2
    /\ \A i \in 1..Len(s.goals_names) : Upper(s.goals_names[i]) # "NONE"
    /\ \A i, j \in 1..Len(s.waypts_pos) :
            i # j => 4 * p.catch_area_radius * p.catch_area_radius
                        < SqDist(s.waypts_pos[i], s.waypts_pos[j])
    /\ p.catch_vec_core < 100
    /\ Len(s.routes_waypts_names) >= 1
    /\ \A r \in 1..Len(s.routes_waypts_names) :
            \E g \in 1..Len(s.goals_names) :
                s.goals_names[g]
                    = s.routes_waypts_names[r][Len(s.routes_waypts_names[r])]
    /\ p.saved_data \subseteq probeable

RatioIntegral(p) == \E k \in 1..p.vrep_sim_dt : p.vrep_sim_dt = k * p.nengo_sim_dt

\* C9: with an invalid configuration the network is never built and no tick
\* is executed, and with a non-integral time-step ratio the experiment stops
\* before it creates the model and before it starts the simulation.
C9_NoTickOnInvalidConfig ==
    /\ ~ConfigValid(params, scene)
        => /\ ~network_built
           /\ t = 0
           /\ pc \in {"connected", "aborted", "dt_validated", "failed"}
    /\ ~RatioIntegral(params)
        => /\ ~network_built
           /\ ~vrep_sim_started
           /\ t = 0
           /\ pc \in {"connected", "aborted"}

C9_Witness ==
    /\ pc = "failed"
    /\ last_op.op = "model_init"
    /\ last_op.raised
    /\ ~ConfigValid(params, scene)

----
(***************************************************************************)
(* Properties of the global vector under displacements.                    *)
(***************************************************************************)
\* C6: as long as on_displace has never been called, after every tick the
\* global vector is its initial value plus the whole change of the observed
\* position since the start.
C6_GlobalVecAccumulates ==
    (~ever_displaced /\ last_op.op = "tick")
        => VSub(global_vec, params.init_global_vec)
                = VSub(bot_pos, params.bot_init_pos)

C6_Witness ==
    /\ ~ever_displaced
    /\ last_op.op = "tick"
    /\ displace_no = 0
    /\ bot_pos[1] # params.bot_init_pos[1]
    /\ bot_pos[2] # params.bot_init_pos[2]

\* C7: at every tick at which the displacement signal is on (on_displace
\* was called since the last tick, or less than 0.1 s ago), the global
\* vector keeps its value and the previous-position reference becomes the
\* observed position; so a jump that on_displace announced before the tick
\* that observes it is not added, neither at that tick nor later.
C7_AnnouncedJumpAbsorbed ==
    [][last_op'.op = "tick"
        => /\ displace_out'
                => (global_vec' = global_vec /\ bot_prev_pos' = bot_pos')
           /\ (displaced /\ jump # <<0, 0>>)
                => (displace_out' /\ global_vec' = global_vec)
           /\ bot_prev_pos' = bot_pos']_vars

C7_Witness ==
    /\ last_op.op = "tick"
    /\ last_op.arg = "jump"
    /\ displace_out
    /\ ever_displaced
    /\ global_vec = params.init_global_vec
    /\ bot_pos # params.bot_init_pos

\* C8, as stated: a jump of the observed position is never added to the
\* global vector, whether on_displace was called or not.
C8_JumpNeverAdded ==
    [][(last_op'.op = "tick" /\ jump # <<0, 0>>)
        => \/ global_vec' = global_vec
           \/ VSub(global_vec', global_vec)
                = VSub(VSub(bot_pos', bot_prev_pos), jump)]_vars

\* C8, amended: a jump observed at a tick with no displacement pending or
\* active is added to the global vector with the rest of the position
\* change; it is kept out when on_displace was called before that tick.
C8_UnannouncedJumpAdded ==
    [][(last_op'.op = "tick" /\ jump # <<0, 0>>)
        => /\ (~displaced /\ t_displace = NoneT)
                => VSub(global_vec', global_vec) = VSub(bot_pos', bot_prev_pos)
           /\ displaced => global_vec' = global_vec]_vars

C8_Witness ==
    /\ last_op.op = "tick"
    /\ last_op.arg = "jump"
    /\ ~ever_displaced
    /\ displace_no = 1
    /\ VSub(global_vec, params.init_global_vec)
            = VSub(bot_pos, params.bot_init_pos)
    /\ global_vec # params.init_global_vec

----
(***************************************************************************)
(* Properties of the wheel-speed mapping.                                  *)
(***************************************************************************)
\* C10: a motion vector of length exactly 0.05 gives wheel speeds (0, 0),
\* and a longer one at angle exactly 0.4 rad gives the forward speeds
\* (5.0 - 0.4, 5.0 + 0.4).
C10_BoundaryConvention ==
    last_op.op = "wheel"
        => /\ motion_vec.norm = 50 => wheel_speeds = <<0, 0>>
           /\ (motion_vec.norm > 50 /\ motion_vec.theta = 400)
                => wheel_speeds = <<4600, 5400>>

----
(***************************************************************************)
(* Properties of the catchment area and the catchment vector.              *)
(***************************************************************************)
\* the waypoints (numbered from 0) closer than the radius to position x
WayptsInRange(x) ==
    {w \in 0..(Len(scene.waypts_pos) - 1) :
        SqDist(scene.waypts_pos[w + 1], x)
            < params.catch_area_radius * params.catch_area_radius}

\* C12: in a validated scene, for every robot position, the catchment
\* output is (-1, -1) exactly when no waypoint is closer than the radius;
\* otherwise exactly one waypoint w is, and the output is (w, d/radius)
\* with d its distance and 0 <= d/radius < 1 (d/radius in thousandths,
\* rounded down).
C12_CatchAreaOutput ==
    last_op.op = "catch"
        => LET inr == WayptsInRange(bot_pos)
               r   == params.catch_area_radius
               nd  == catch_area.norm_waypt_dist
           IN  /\ (catch_area = [waypt_id |-> -1, norm_waypt_dist |-> -1000])
                    <=> inr = {}
               /\ inr # {}
                    => /\ inr = {catch_area.waypt_id}
                       /\ 0 <= nd /\ nd < 1000
                       /\ LET sq == SqDist(
                                  scene.waypts_pos[catch_area.waypt_id + 1],
                                  bot_pos)
                          IN  /\ nd * nd * r * r <= 1000000 * sq
                              /\ 1000000 * sq < (nd + 1) * (nd + 1) * r * r

C12_Witness ==
    /\ last_op.op = "catch"
    /\ catch_area.waypt_id = 2
    /\ catch_area.norm_waypt_dist > 900
    /\ params.catch_area_radius = 24

\* C13: whenever the robot is within a catchment area and the view-match
\* confidence exceeds the threshold, the gain of the catchment vector is
\* min((1 - d/radius) / (1 - core), 1): 1 at the waypoint (d = 0) and for
\* d/radius <= core, and always between 0 and 1.
C13_CatchVecGain ==
    (/\ last_op.op = "catch"
     /\ catch_area.waypt_id # -1
     /\ view7view > params.catch_vec_thres)
        => LET nd   == catch_area.norm_waypt_dist
               core == 10 * params.catch_vec_core
               gain == catch_vec.gain
           IN  /\ gain = Min(((1000 - nd) * 1000) \div (1000 - core), 1000)
               /\ nd <= core => gain = 1000
               /\ 0 <= gain /\ gain <= 1000

----
(***************************************************************************)
(* Properties of the order of the callbacks within a tick.                 *)
(***************************************************************************)
\* C18: within a tick update_global_vec sees the displacement flag and the
\* displacement timer as the previous tick left them, so the global vector
\* after the tick is the same whichever of update_displace and
\* update_global_vec runs first.
C18_CallbackOrderIrrelevant ==
    [][last_op'.op = "tick"
        => LET x   == bot_pos'
               pre == [displaced |-> displaced, t_displace |-> t_displace,
                       global_vec |-> global_vec,
                       bot_prev_pos |-> bot_prev_pos]
               dr  == update_displace(t', pre)
               mid == [pre EXCEPT !.displaced = dr.displaced,
                                  !.t_displace = dr.t_displace]
           IN  /\ global_vec' = update_global_vec(x, pre).global_vec
               /\ update_global_vec(x, mid).global_vec
                    = update_global_vec(x, pre).global_vec]_vars

----
(***************************************************************************)
(* Properties of the action selection.                                     *)
(***************************************************************************)
\* C14: at every tick at which the current goal is NONE, the no_goal action
\* is the one executed and gate_target_vec_goal is driven to 1.
C14_NoGoalDisablesTargetVec ==
    (last_op.op = "act" /\ goal_name = "NONE")
        => (action = "no_goal" /\ gate_target_vec_goal)

C19_StaticPriority ==
    last_op.op = "act"
        => LET order == <<"reset", "no_goal", "next2prev_routept",
                          "view2prev_routept", "default">>
               best(i) == \A j \in 1..5 : utils[order[i]] >= utils[order[j]]
           IN  \E i \in 1..5 :
                    /\ best(i)
                    /\ \A j \in 1..(i - 1) : ~best(j)
                    /\ action = order[i]

\* C21: when gate_view_routept is clear and view2prev_routept is executed
\* with the view seen being that of a routepoint of the current goal, the
\* previous routepoint becomes that routepoint, whether or not one was held,
\* and gate_view_routept and gate_target_vec are set; once set, both gates
\* stay set at every step that does not execute reset.
C21_ViewCommitsRoutepoint ==
    [][/\ (/\ last_op'.op = "act"
           /\ ~gate_view_routept
           /\ action' = "view2prev_routept"
           /\ goal0view(goal_name', view') # "0")
            => /\ prev_routept' = goal0view(goal_name', view')
               /\ gate_view_routept'
               /\ gate_target_vec'
       /\ (/\ gate_view_routept /\ gate_target_vec
           /\ ~(last_op'.op = "act" /\ action' = "reset"))
            => (gate_view_routept' /\ gate_target_vec')]_vars

C21_Witness ==
    /\ last_op.op = "act"
    /\ action = "next2prev_routept"
    /\ was_following
    /\ t = 200
    /\ goal_name = "Feed1"
    /\ prev_routept = "FEED1xVIEW_WAYPOINT1"
    /\ gate_view_routept /\ gate_target_vec

----
(***************************************************************************)
(* Properties of the routepoint memories.                                  *)
(***************************************************************************)
\* in the model built from configuration c: every routepoint but the last
\* of a route has the next routepoint of that route as its only successor
\* and one local vector, and the last has no successor and the zero vector
LookupIsFunction(c) ==
    LET keys == routes_routepts_sp_keys(Configs[c].scene)
    IN  \A r \in 1..Len(keys) : \A i \in 1..Len(keys[r]) :
            /\ Cardinality(routepts2norm_local_vecs_table[c][keys[r][i]]) = 1
            /\ i < Len(keys[r])
                => prev2next_table[c][keys[r][i]] = {keys[r][i + 1]}
            /\ i = Len(keys[r])
                => /\ prev2next_table[c][keys[r][i]] = {}
                   /\ routepts2norm_local_vecs_table[c][keys[r][i]]
                        = {<<0, 0>>}

lookup_is_function == [c \in 1..Len(Configs) |-> LookupIsFunction(c)]

\* C22: in every model built (the scene was accepted by validate_params),
\* each routepoint that is not the last of its route has exactly one
\* successor, the routepoint of the next waypoint of the route, each
\* routepoint has exactly one local vector, and the last routepoint of a
\* route has no successor and the zero local vector.
C22_SuccessorLookupIsFunction ==
    network_built => lookup_is_function[cfg]

\* C23: whenever the catchment vector is not zero, its direction part has
\* Euclidean length 1 (in thousandths, each component rounded towards zero)
\* and points from the robot to the waypoint in range, wherever the robot
\* is relative to the waypoint.
C23_CatchVecIsUnit ==
    (last_op.op = "catch" /\ catch_vec.vec # <<0, 0>>)
        => LET v  == catch_vec.vec
               cv == VSub(scene.waypts_pos[catch_area.waypt_id + 1], bot_pos)
               sq == v[1] * v[1] + v[2] * v[2]
           IN  /\ 997000 <= sq /\ sq <= 1000000
               /\ v[1] * cv[1] >= 0 /\ v[2] * cv[2] >= 0
               /\ v[1] * cv[2] - v[2] * cv[1] \in -1000..1000

----
----
(***************************************************************************)
(* Further properties of set_goal and goal detection.                      *)
(***************************************************************************)
\* C25: the goal that is current after a tick is the one named in the last
\* set_goal call that returned without error before that tick (the call
\* naming a goal of the scene).
C25_LastSetGoalWins ==
    [][(/\ last_op.op = "set_goal" /\ ~last_op.raised
        /\ IsGoalName(last_op.arg)
        /\ last_op'.op = "tick")
        => goal_name' = last_op.arg]_vars

\* C26: once the goal-reached flag is true, no tick clears it, whatever
\* goal detection reads; it turns false only in a set_goal call that names
\* a goal of the scene other than the current one.
C26_GoalReachedSticky ==
    [][/\ (goal_reached /\ last_op'.op = "tick") => goal_reached'
       /\ (goal_reached /\ ~goal_reached')
            => /\ last_op'.op = "set_goal"
               /\ ~last_op'.raised
               /\ IsGoalName(last_op'.arg)
               /\ last_op'.arg # goal_name]_vars

C26_Witness ==
    /\ goal_reached
    /\ last_op.op = "tick"
    /\ match_since = NoneT
    /\ t_goal_reached = NoneT
    /\ t >= 350

----
(***************************************************************************)
(* Further properties of the action selection.                             *)
(***************************************************************************)
\* C27: gate_view_routept and gate_target_vec are in the same state at
\* every tick: both clear at the start, both set by view2prev_routept and
\* by nothing else, both cleared by reset and by nothing else.
C27_GatesAgree ==
    [][/\ gate_view_routept' = gate_target_vec'
       /\ (~gate_view_routept /\ gate_view_routept')
            => (last_op'.op = "act" /\ action' = "view2prev_routept")
       /\ (gate_view_routept /\ ~gate_view_routept')
            => (last_op'.op = "act" /\ action' = "reset")
       /\ (last_op'.op = "act" /\ action' = "view2prev_routept")
            => gate_view_routept'
       /\ (last_op'.op = "act" /\ action' = "reset")
            => ~gate_view_routept']_vars

C27_Witness ==
    /\ last_op.op = "act"
    /\ action = "reset"
    /\ was_following
    /\ t_new_goal = t
    /\ t_displace = NoneT
    /\ goal_name = "Nest"
    /\ ~gate_view_routept /\ ~gate_target_vec

----
(***************************************************************************)
(* Further properties of the displacement signal.                          *)
(***************************************************************************)
\* C28: the first tick after on_displace() clears the flag, starts the
\* timer and has the displacement signal on; without a further call the
\* signal stays on at the ticks less than 0.1 s after that tick and is off
\* at the first tick not so, which clears the timer; with flag and timer
\* clear the signal stays off, flag and timer stay clear and the observed
\* change of position is added to the global vector; an on_displace() call
\* made while the flag is already set changes nothing.
C28_DisplacePulse ==
    [][/\ (last_op'.op = "tick" /\ displaced)
            => /\ displace_out'
               /\ ~displaced'
               /\ t_displace' = t'
       /\ (last_op'.op = "tick" /\ ~displaced /\ t_displace # NoneT)
            => /\ displace_out' <=> (t' - t_displace < 100)
               /\ ~displaced'
               /\ t_displace' = IF displace_out' THEN t_displace ELSE NoneT
       /\ (last_op'.op = "tick" /\ ~displaced /\ t_displace = NoneT)
            => /\ ~displace_out'
               /\ ~displaced'
               /\ t_displace' = NoneT
               /\ VSub(global_vec', global_vec) = VSub(bot_pos', bot_prev_pos)
       /\ (last_op'.op = "on_displace" /\ displaced)
            => UNCHANGED <<displaced, t_displace, displace_out, global_vec,
                           bot_prev_pos>>]_vars

C28_Witness ==
    /\ last_op.op = "tick"
    /\ t = 200
    /\ ever_displaced
    /\ displace_no = 0
    /\ ~displaced
    /\ t_displace = NoneT
    /\ ~displace_out
    /\ ~displace_first
    /\ bot_pos = VAdd(params.bot_init_pos, <<1, 1>>)
    /\ global_vec = VAdd(params.init_global_vec, <<0, 1>>)

\* the goal called name is the last waypoint of some route of scene s
EndsRoute(s, name) ==
    \E r \in 1..Len(s.routes_waypts_names) :
        s.routes_waypts_names[r][Len(s.routes_waypts_names[r])] = name

\* the goals of the scene in use that end no route (numbered as in
\* scene.goals_names)
GoalsOffRoutes ==
    {g \in 1..Len(scene.goals_names) : ~EndsRoute(scene, scene.goals_names[g])}

\* C29: for a goal G that is the last waypoint of no route, the routepoint
\* G x VIEW_G is not in the routepoint vocabulary, and a tick at which goal
\* detection matches G, whatever routepoint it matches with it, starts no
\* timer and does not raise the goal-reached flag; the flag is raised only
\* at a tick at which a goal that ends a route can be the one matched.
C29_ReachedOnlyForRouteEnds ==
    [][last_op'.op = "tick"
        => /\ \A g \in GoalsOffRoutes :
                /\ \A i \in 1..Len(routepts_vocab[cfg]) :
                        routepts_vocab[cfg][i]
                            # Upper(scene.goals_names[g]) \o "xVIEW_"
                                \o Upper(scene.goals_names[g])
                /\ \A r \in 1..Len(routepts_vocab[cfg]) :
                        LET gd == update_goal_detect(t', g, 45, r, 45)
                        IN  /\ gd.goal_reached = goal_reached
                            /\ gd.t_goal_reached = NoneT
           /\ (~goal_reached /\ goal_reached')
                => \E g \in 1..Len(scene.goals_names) :
                        /\ g \notin GoalsOffRoutes
                        /\ \E r \in 1..Len(routepts_vocab[cfg]) :
                            update_goal_detect(t', g, 45, r, 45).goal_reached]_vars

C29_Witness ==
    /\ GoalsOffRoutes # {}
    /\ goal_name = "Nest"
    /\ scene.goals_names[CHOOSE g \in GoalsOffRoutes : TRUE] = goal_name
    /\ last_op.op = "tick"
    /\ t = MaxT
    /\ ~goal_reached
    /\ t_goal_reached = NoneT

\* C30: with the reference coefficients (0.2, 0.5, 0.2) the utilities of
\* next2prev_routept and view2prev_routept are never both above the default
\* utility 0.5 at a tick: view2prev_routept is above it only with
\* gate_view_routept clear before the tick and view7view above 0.6,
\* next2prev_routept only with the gate set and view7view above 0.6; and
\* view2prev_routept is executed only with the gate clear, which it sets, so
\* it is not executed again before a reset has cleared the gate.
C30_AdvanceCommitExclusive ==
    [][(/\ last_op'.op = "act"
        /\ params.action_n2pr_coeff_gvr = 20
        /\ params.action_v2pr_coeff_gvr = 50
        /\ params.action_v2pr_coeff_intercept = 20)
        => /\ ~(/\ utils'["next2prev_routept"] > DefaultUtility
                /\ utils'["view2prev_routept"] > DefaultUtility)
           /\ utils'["view2prev_routept"] > DefaultUtility
                <=> (~gate_view_routept /\ view7view' > 60)
           /\ utils'["next2prev_routept"] > DefaultUtility
                <=> (gate_view_routept /\ view7view' > 60)
           /\ action' = "view2prev_routept"
                => (~gate_view_routept /\ gate_view_routept')
           /\ action' = "next2prev_routept" => gate_view_routept]_vars

C30_Witness ==
    /\ last_op.op = "act"
    /\ action = "next2prev_routept"
    /\ gate_view_routept
    /\ view7view = 100
    /\ utils["next2prev_routept"] = 70
    /\ utils["view2prev_routept"] = 20

====
